---------------------------- MODULE Spec2Model ----------------------------
(***************************************************************************)
(* Model of ingest.py: the fetch / extract / validate / transform pipeline *)
(* of the University of Sheffield COVID-19 dashboard scraper, the chart    *)
(* built from its result and the CSV / JSON export.                        *)
(*                                                                         *)
(* A Python str is a sequence of one-character strings; the text of an     *)
(* element without text (None) is the cell NoneText.  A row is a sequence  *)
(* of cells, a table a sequence of rows.  A transformed row is the ISO     *)
(* date (a str) followed by ints.                                          *)
(***************************************************************************)
EXTENDS Integers, Sequences, FiniteSets, Bags, TLC

VARIABLES
    entry,          \* the function that was called: "main" or "extract_transform_data"
    pc,             \* position of the run
    args,           \* main: args.csv_file / args.json_file, given or not
    table,          \* extract_transform_data: table
    i,              \* index of the row the running loop looks at (1-based)
    validated,      \* validate: validated
    rows,           \* transform: rows (the value validate returned)
    result,         \* transform: result
    data,           \* the value transform returned
    city_data,      \* main: city_data
    chart,          \* create_visualisations: the series the figure is drawn from
    files,          \* the files written so far
    err             \* the exception that ended the run, and the stage that raised it

vars == <<entry, pc, args, table, i, validated, rows, result, data,
          city_data, chart, files, err>>

-----------------------------------------------------------------------------
(* Bounds of the model *)

MaxRows == 3

MaxMainRows == 2

MaxCity == 2

-----------------------------------------------------------------------------
(* Python str and list primitives *)

NoneText == <<"None">>

IsNone(cell) == cell = NoneText

\* sub in s, for two str
Contains(sub, s) ==
    \E k \in 0..(Len(s) - Len(sub)) : SubSeq(s, k + 1, k + Len(sub)) = sub

\* s.endswith(c), c one character
EndsWith(s, c) == Len(s) > 0 /\ s[Len(s)] = c

\* s[:-1]
DropLast(s) == SubSeq(s, 1, Len(s) - 1)

DigitChars == <<"0", "1", "2", "3", "4", "5", "6", "7", "8", "9">>

IsDigit(c) == \E k \in 1..10 : DigitChars[k] = c

DigitValue(c) == (CHOOSE k \in 1..10 : DigitChars[k] = c) - 1

IsDigits(s) == Len(s) > 0 /\ \A k \in 1..Len(s) : IsDigit(s[k])

RECURSIVE DigitsValue(_)
DigitsValue(s) ==
    IF Len(s) = 0 THEN 0
    ELSE 10 * DigitsValue(DropLast(s)) + DigitValue(s[Len(s)])

\* the characters of an ISO date in code-point order: "-" < "0" < ... < "9"
CharOrder == <<"-", "0", "1", "2", "3", "4", "5", "6", "7", "8", "9">>

Ord(c) == CHOOSE k \in 1..Len(CharOrder) : CharOrder[k] = c

\* a < b for two str (lexicographic by code point)
RECURSIVE StrLess(_, _)
StrLess(a, b) ==
    IF Len(b) = 0 THEN FALSE
    ELSE IF Len(a) = 0 THEN TRUE
    ELSE IF a[1] # b[1] THEN Ord(a[1]) < Ord(b[1])
    ELSE StrLess(Tail(a), Tail(b))

-----------------------------------------------------------------------------
(* dateutil.parser.parse(text).date() and str(date), as used by transform *)

DateSeparators == {" ", "-"}

\* the tokens of s between separators (cur is the token being read)
RECURSIVE Tokens(_, _)
Tokens(s, cur) ==
    IF Len(s) = 0 THEN (IF Len(cur) = 0 THEN <<>> ELSE <<cur>>)
    ELSE IF s[1] \in DateSeparators
         THEN (IF Len(cur) = 0 THEN <<>> ELSE <<cur>>) \o Tokens(Tail(s), <<>>)
         ELSE Tokens(Tail(s), Append(cur, s[1]))

MonthNames == << <<"J","a","n">>, <<"F","e","b">>, <<"M","a","r">>, <<"A","p","r">>,
                 <<"M","a","y">>, <<"J","u","n">>, <<"J","u","l">>, <<"A","u","g">>,
                 <<"S","e","p">>, <<"O","c","t">>, <<"N","o","v">>, <<"D","e","c">> >>

IsMonthName(t) == \E m \in 1..Len(MonthNames) : MonthNames[m] = t

MonthNumber(t) == CHOOSE m \in 1..Len(MonthNames) : MonthNames[m] = t

IsLeap(y) == (y % 4 = 0 /\ y % 100 # 0) \/ y % 400 = 0

DaysInMonth(y, m) ==
    IF m = 2 THEN (IF IsLeap(y) THEN 29 ELSE 28)
    ELSE IF m \in {4, 6, 9, 11} THEN 30 ELSE 31

NoDate == [ok |-> FALSE, year |-> 0, month |-> 0, day |-> 0]

MakeDate(y, m, d) ==
    IF y \in 1..9999 /\ m \in 1..12 /\ d >= 1 /\ d <= DaysInMonth(y, m)
    THEN [ok |-> TRUE, year |-> y, month |-> m, day |-> d]
    ELSE NoDate

\* The free-form parser on the two shapes the dashboard and the ISO form use:
\* "D Mon YYYY" and "YYYY-MM-DD"; any other text is a ParserError (ok = FALSE).
ParseDate(text) ==
    LET t == Tokens(text, <<>>)
    IN  IF Len(t) # 3 THEN NoDate
        ELSE IF IsDigits(t[1]) /\ Len(t[1]) <= 2 /\ IsMonthName(t[2])
                /\ IsDigits(t[3]) /\ Len(t[3]) = 4
             THEN MakeDate(DigitsValue(t[3]), MonthNumber(t[2]), DigitsValue(t[1]))
        ELSE IF IsDigits(t[1]) /\ Len(t[1]) = 4 /\ IsDigits(t[2]) /\ Len(t[2]) <= 2
                /\ IsDigits(t[3]) /\ Len(t[3]) <= 2
             THEN MakeDate(DigitsValue(t[1]), DigitsValue(t[2]), DigitsValue(t[3]))
        ELSE NoDate

RECURSIVE ToDigits(_)
ToDigits(n) ==
    IF n < 10 THEN <<DigitChars[n + 1]>>
    ELSE Append(ToDigits(n \div 10), DigitChars[(n % 10) + 1])

RECURSIVE ZeroPad(_, _)
ZeroPad(s, width) == IF Len(s) >= width THEN s ELSE ZeroPad(<<"0">> \o s, width)

\* variant: the fields are not zero-padded ("%d-%d-%d")
IsoFormatUnpadded(dt) ==
    ToDigits(dt.year) \o <<"-">> \o ToDigits(dt.month) \o <<"-">> \o ToDigits(dt.day)

\* str(date): "%04d-%02d-%02d"
IsoFormat(dt) ==
    ZeroPad(ToDigits(dt.year), 4) \o <<"-">> \o ZeroPad(ToDigits(dt.month), 2)
        \o <<"-">> \o ZeroPad(ToDigits(dt.day), 2)

\* int(x) for a str x: an optional sign and decimal digits, else ValueError
IntOf(x) ==
    IF IsDigits(x) THEN [ok |-> TRUE, value |-> DigitsValue(x)]
    ELSE IF Len(x) > 1 /\ x[1] = "-" /\ IsDigits(Tail(x))
         THEN [ok |-> TRUE, value |-> 0 - DigitsValue(Tail(x))]
    ELSE IF Len(x) > 1 /\ x[1] = "+" /\ IsDigits(Tail(x))
         THEN [ok |-> TRUE, value |-> DigitsValue(Tail(x))]
    ELSE [ok |-> FALSE, value |-> 0]

-----------------------------------------------------------------------------
(* sorted(result): lists compare element by element, a proper prefix first *)

RECURSIVE ListLess(_, _, _)
ListLess(a, b, k) ==
    IF k > Len(a) THEN k <= Len(b)
    ELSE IF k > Len(b) THEN FALSE
    ELSE IF a[k] # b[k]
         THEN (IF k = 1 THEN StrLess(a[k], b[k]) ELSE a[k] < b[k])
    ELSE ListLess(a, b, k + 1)

RECURSIVE Insert(_, _)
Insert(row, s) ==
    IF Len(s) = 0 THEN <<row>>
    ELSE IF ListLess(row, Head(s), 1) THEN <<row>> \o s
    ELSE <<Head(s)>> \o Insert(row, Tail(s))

RECURSIVE Sorted(_)
Sorted(s) == IF Len(s) = 0 THEN <<>> ELSE Insert(s[Len(s)], Sorted(DropLast(s)))

-----------------------------------------------------------------------------
(* validate, one row of the loop *)

Day == <<"D","a","y">>

NewStaff == <<"N","e","w"," ","s","t","a","f","f">>

NewStudent == <<"N","e","w"," ","s","t","u","d","e","n","t">>

Raised(exc) == [kind |-> "raise", exc |-> exc, row |-> <<>>]

\* variant: every trailing asterisk is removed (cell_value.rstrip('*'))
RECURSIVE StripAllMarkers(_)
StripAllMarkers(cell_value) ==
    IF EndsWith(cell_value, "*") THEN StripAllMarkers(DropLast(cell_value))
    ELSE cell_value

\* cell_value[:-1] if cell_value.endswith('*') else cell_value
StripMarker(cell_value) ==
    IF EndsWith(cell_value, "*") THEN DropLast(cell_value) ELSE cell_value

\* variant: the asserts are not executed (python -O)
HeaderCheckDisabled(row) == ""

\* the two asserts on a row whose cell 0 contains "Day": "" when both pass
HeaderCheck(row) ==
    IF Len(row) < 2 THEN "IndexError"
    ELSE IF IsNone(row[2]) THEN "TypeError"
    ELSE IF ~Contains(NewStaff, row[2]) THEN "AssertionError"
    ELSE IF Len(row) < 3 THEN "IndexError"
    ELSE IF IsNone(row[3]) THEN "TypeError"
    ELSE IF ~Contains(NewStudent, row[3]) THEN "AssertionError"
    ELSE ""

\* the list comprehension that strips the markers of a row
CleanRow(row) ==
    IF \E k \in 1..Len(row) : IsNone(row[k]) THEN Raised("AttributeError")
    ELSE [kind |-> "data", exc |-> "",
          row |-> [k \in 1..Len(row) |-> StripMarker(row[k])]]

\* variant: the "continue" is missing, a header row that passes its asserts is
\* cleaned and appended like a data row
ValidateRowNoContinue(row) ==
    IF Len(row) = 0 THEN Raised("IndexError")
    ELSE IF IsNone(row[1]) THEN Raised("TypeError")
    ELSE IF Contains(Day, row[1]) /\ HeaderCheck(row) # ""
         THEN Raised(HeaderCheck(row))
    ELSE CleanRow(row)

\* the body of the loop of validate for one row: the row is a header that is
\* skipped, a data row that is cleaned and appended, or the row raises
ValidateRow(row) ==
    IF Len(row) = 0 THEN Raised("IndexError")
    ELSE IF IsNone(row[1]) THEN Raised("TypeError")
    ELSE IF Contains(Day, row[1])
         THEN (IF HeaderCheck(row) # "" THEN Raised(HeaderCheck(row))
               ELSE [kind |-> "header", exc |-> "", row |-> <<>>])
    ELSE CleanRow(row)

-----------------------------------------------------------------------------
(* transform, one row of the loop *)

TransformRow(row) ==
    LET dt == ParseDate(row[1])
    IN  IF ~dt.ok THEN [exc |-> "ParserError", out |-> <<>>]
        ELSE IF \E k \in 2..Len(row) : ~IntOf(row[k]).ok
             THEN [exc |-> "ValueError", out |-> <<>>]
        ELSE [exc |-> "",
              out |-> <<IsoFormat(dt)>>
                      \o [k \in 1..(Len(row) - 1) |-> IntOf(row[k + 1]).value]]

\* variant: equal rows are merged (sorted(set(...)))
Deduplicated(rs) ==
    LET RECURSIVE Uniq(_)
        Uniq(s) == IF Len(s) = 0 THEN <<>>
                   ELSE IF \E k \in 1..(Len(s) - 1) : s[k] = s[Len(s)]
                        THEN Uniq(DropLast(s))
                        ELSE Append(Uniq(DropLast(s)), s[Len(s)])
    IN  Sorted(Uniq(rs))

\* "return sorted(result)"
TransformResult(rs) == Sorted(rs)

-----------------------------------------------------------------------------
(* create_visualisations *)

date_column == 0

staff_column == 1

studentColumn == 2

NoChart == [drawn |-> FALSE, dates |-> <<>>, staff_values |-> <<>>,
            student_values |-> <<>>, city_dates |-> <<>>, city_count |-> <<>>,
            bars |-> <<>>]

\* city_data = [row for row in city_data if row[0] in dates]
RECURSIVE RestrictToDates(_, _)
RestrictToDates(cd, dates) ==
    IF Len(cd) = 0 THEN <<>>
    ELSE IF \E k \in 1..Len(dates) : dates[k] = Head(cd).date
         THEN <<Head(cd)>> \o RestrictToDates(Tail(cd), dates)
         ELSE RestrictToDates(Tail(cd), dates)

\* numpy broadcasting of two one-dimensional arrays of lengths n and m
CanBroadcast(n, m) == n = m \/ n = 1 \/ m = 1

BroadcastLen(n, m) == IF n = m THEN n ELSE IF n = 1 THEN m ELSE n

\* element k of a length-n array broadcast to a longer shape
BroadcastIndex(n, k) == IF n = 1 THEN 1 ELSE k

\* The series of the figure, or the exception the function raises before
\* plt.savefig.  A newCases value is <<c>> for the int c and <<>> for None.
Visualise(d, cd) ==
    IF \E k \in 1..Len(d) : Len(d[k]) < studentColumn + 1
    THEN [exc |-> "IndexError", chart |-> NoChart]
    ELSE
    LET dates == [k \in 1..Len(d) |-> d[k][date_column + 1]]
        staff == [k \in 1..Len(d) |-> d[k][staff_column + 1]]
        student == [k \in 1..Len(d) |-> d[k][studentColumn + 1]]
        city == RestrictToDates(cd, dates)
        count == [k \in 1..Len(city) |-> city[k].newCases]
        n == Len(dates)
        m == Len(city)
        heights == BroadcastLen(n, m)
        nbars == BroadcastLen(n, heights)
    IN  IF ~CanBroadcast(n, m) THEN [exc |-> "ValueError", chart |-> NoChart]
        ELSE IF \E k \in 1..m : count[k] = <<>>
             THEN [exc |-> "TypeError", chart |-> NoChart]
        ELSE [exc |-> "",
              chart |-> [drawn |-> TRUE, dates |-> dates, staff_values |-> staff,
                         student_values |-> student,
                         city_dates |-> [k \in 1..m |-> city[k].date],
                         city_count |-> count,
                         bars |-> [k \in 1..nbars |->
                             [date |-> dates[BroadcastIndex(n, k)],
                              staff |-> staff[BroadcastIndex(n, k)],
                              student |-> student[BroadcastIndex(n, k)],
                              city_date |-> city[BroadcastIndex(m, k)].date,
                              city_count |-> count[BroadcastIndex(m, k)]]]]]

\* variant: the image is saved before the series are computed
SavedBeforeDrawing(fs, exc) == fs \cup {"png"}

\* plt.savefig(filename) is the last statement: the image exists only when
\* nothing before it raised
Saved(fs, exc) == IF exc = "" THEN fs \cup {"png"} ELSE fs

-----------------------------------------------------------------------------
(* main: the export branch *)

\* variant: two independent "if" instead of "if ... elif"
ExportBoth(a) ==
    (IF a.csv_file THEN {"csv"} ELSE {}) \cup (IF a.json_file THEN {"json"} ELSE {})

\* if args.csv_file is not None: ... elif args.json_file is not None: ...
ExportFormats(a) ==
    IF a.csv_file THEN {"csv"} ELSE IF a.json_file THEN {"json"} ELSE {}

-----------------------------------------------------------------------------
(* The inputs: what extract finds in the page, what the city API answers *)

Oct12 == <<"1","2"," ","O","c","t"," ","2","0","2","0">>

Oct13 == <<"1","3"," ","O","c","t"," ","2","0","2","0">>

Oct9 == <<"9"," ","O","c","t"," ","2","0","2","0">>

Jan1 == <<"1"," ","J","a","n"," ","2","0","2","1">>

IsoOct12 == <<"2","0","2","0","-","1","0","-","1","2">>

IsoOct13 == <<"2","0","2","0","-","1","0","-","1","3">>

IsoOct14 == <<"2","0","2","0","-","1","0","-","1","4">>

GoodHeader == <<Day, NewStaff \o <<" ","c","a","s","e","s">>,
                NewStudent \o <<" ","c","a","s","e","s">> >>

BadHeader == <<Day, <<"S","t","a","f","f">>, <<"S","t","u","d","e","n","t">> >>

ShortHeader == <<Day, NewStaff>>

HalfHeader == <<Day, NewStaff, <<"S","t","u","d","e","n","t">> >>

\* rows main is run on
MainRowPool ==
    { GoodHeader,
      BadHeader,
      <<Oct12, <<"3","*">>, <<"5">> >>,
      <<Oct13, <<"1">>, <<"2","*">> >>,
      <<Oct13, <<"1">> >>,
      <<Oct13, <<"N","/","A">>, <<"2">> >> }

\* rows extract_transform_data is run on
RowPool ==
    MainRowPool \cup
    { ShortHeader,
      HalfHeader,
      <<>>,
      <<Oct12, NoneText, <<"5">> >>,
      <<Oct9, <<"3","*","*">>, <<"*">> >>,
      <<Oct9, <<"7">>, <<"2","*">> >>,
      <<Jan1, <<"1","0">>, <<"0">> >>,
      <<IsoOct12, <<"3">>, <<"5">> >>,
      <<<<"T","o","d","a","y">>, <<"1">>, <<"2">> >> }

Tables(pool, n) == UNION { [1..k -> pool] : k \in 0..n }

\* one element of the "data" array of the API's answer
CityPool ==
    { [date |-> IsoOct12, newCases |-> <<40>>],
      [date |-> IsoOct13, newCases |-> <<25>>],
      [date |-> IsoOct13, newCases |-> <<>>],
      [date |-> IsoOct14, newCases |-> <<30>>] }

\* response_city[::-1]
Reversed(s) == [k \in 1..Len(s) |-> s[Len(s) + 1 - k]]

\* a name that is not bound yet
Unbound == << << <<"unbound">> >> >>

NoError == [exc |-> "", stage |-> ""]

-----------------------------------------------------------------------------
(* The run *)

InitLocals ==
    /\ table = Unbound
    /\ i = 1
    /\ validated = <<>>
    /\ rows = Unbound
    /\ result = <<>>
    /\ data = Unbound
    /\ city_data = <<>>
    /\ chart = NoChart
    /\ files = {}
    /\ err = NoError

\* a call of extract_transform_data(response_text)
Init ==
    /\ entry = "extract_transform_data"
    /\ pc = "extract"
    /\ args = [csv_file |-> FALSE, json_file |-> FALSE]
    /\ InitLocals

\* a run of main() with the --csv and --json flags given or not
MainInit ==
    /\ entry = "main"
    /\ pc = "fetch"
    /\ args \in [csv_file : BOOLEAN, json_file : BOOLEAN]
    /\ InitLocals

Raise(exc, stage) ==
    /\ pc' = "raised"
    /\ err' = [exc |-> exc, stage |-> stage]

\* response = fetch(): the page arrives or requests.get raises
Fetch ==
    /\ pc = "fetch"
    /\ \/ pc' = "extract" /\ err' = err
       \/ Raise("ConnectionError", "fetch")
    /\ UNCHANGED <<entry, args, table, i, validated, rows, result, data,
                   city_data, chart, files>>

\* dom = html5lib.parse(...); table = extract(dom): any list of rows
Extract ==
    /\ pc = "extract"
    /\ \E t \in Tables(IF entry = "main" THEN MainRowPool ELSE RowPool,
                       IF entry = "main" THEN MaxMainRows ELSE MaxRows) :
           table' = t
    /\ pc' = "validate"
    /\ i' = 1
    /\ validated' = <<>>
    /\ UNCHANGED <<entry, args, rows, result, data, city_data, chart, files, err>>

\* validate: one iteration of "for row in table"
ValidateStep ==
    /\ pc = "validate"
    /\ i <= Len(table)
    /\ LET r == ValidateRow(table[i])
       IN  IF r.kind = "raise"
           THEN /\ Raise(r.exc, "validate")
                /\ UNCHANGED <<i, validated>>
           ELSE /\ validated' = IF r.kind = "data" THEN Append(validated, r.row)
                                ELSE validated
                /\ i' = i + 1
                /\ UNCHANGED <<pc, err>>
    /\ UNCHANGED <<entry, args, table, rows, result, data, city_data, chart, files>>

\* validate: "return validated", bound to rows by transform(validated)
ValidateReturn ==
    /\ pc = "validate"
    /\ i > Len(table)
    /\ rows' = validated
    /\ pc' = "transform"
    /\ i' = 1
    /\ result' = <<>>
    /\ UNCHANGED <<entry, args, table, validated, data, city_data, chart, files, err>>

\* transform: one iteration of "for row in rows"
TransformStep ==
    /\ pc = "transform"
    /\ i <= Len(rows)
    /\ LET r == TransformRow(rows[i])
       IN  IF r.exc # ""
           THEN /\ Raise(r.exc, "transform")
                /\ UNCHANGED <<i, result>>
           ELSE /\ result' = Append(result, r.out)
                /\ i' = i + 1
                /\ UNCHANGED <<pc, err>>
    /\ UNCHANGED <<entry, args, table, validated, rows, data, city_data, chart, files>>

\* transform: "return sorted(result)", bound to data by the caller
TransformReturn ==
    /\ pc = "transform"
    /\ i > Len(rows)
    /\ data' = TransformResult(result)
    /\ pc' = IF entry = "main" THEN "fetch_city" ELSE "returned"
    /\ UNCHANGED <<entry, args, table, i, validated, rows, result, city_data,
                   chart, files, err>>

\* the city data: requests.get(URL_city).json()['data'], reversed and projected
FetchCity ==
    /\ pc = "fetch_city"
    /\ \/ /\ \E response \in Tables(CityPool, MaxCity) :
                city_data' = Reversed(response)
          /\ pc' = "visualise"
          /\ err' = err
       \/ /\ Raise("ConnectionError", "fetch_city")
          /\ city_data' = city_data
    /\ UNCHANGED <<entry, args, table, i, validated, rows, result, data, chart, files>>

\* create_visualisations(data, city_data)
CreateVisualisations ==
    /\ pc = "visualise"
    /\ LET v == Visualise(data, city_data)
       IN  /\ chart' = v.chart
           /\ files' = Saved(files, v.exc)
           /\ IF v.exc # "" THEN Raise(v.exc, "visualise")
              ELSE pc' = "export" /\ err' = err
    /\ UNCHANGED <<entry, args, table, i, validated, rows, result, data, city_data>>

\* the export: the file is written, or open() raises
Export ==
    /\ pc = "export"
    /\ \/ /\ files' = files \cup ExportFormats(args)
          /\ pc' = "done"
          /\ err' = err
       \/ /\ ExportFormats(args) # {}
          /\ Raise("OSError", "export")
          /\ files' = files
    /\ UNCHANGED <<entry, args, table, i, validated, rows, result, data,
                   city_data, chart>>

ETL == Extract \/ ValidateStep \/ ValidateReturn \/ TransformStep \/ TransformReturn

Next == ETL

MainNext == Fetch \/ ETL \/ FetchCity \/ CreateVisualisations \/ Export

Spec == Init /\ [][Next]_vars

MainSpec == MainInit /\ [][MainNext]_vars

-----------------------------------------------------------------------------
(* Vocabulary of the properties *)

\* validate has returned (its value is bound to rows)
ValidateReturned == rows # Unbound

ValidateRaised == pc = "raised" /\ err.stage = "validate"

\* transform has returned (its value is bound to data)
TransformReturned == data # Unbound

IsText(row, k) == k <= Len(row) /\ ~IsNone(row[k])

\* cell 0 of the row contains the header marker
HasHeaderMarker(row) == IsText(row, 1) /\ Contains(Day, row[1])

\* the indices, in order, of the rows among the first n of t that have no
\* header marker
RECURSIVE DataIndices(_, _)
DataIndices(t, n) ==
    IF n = 0 THEN <<>>
    ELSE IF HasHeaderMarker(t[n]) THEN DataIndices(t, n - 1)
    ELSE Append(DataIndices(t, n - 1), n)

\* out is cell with exactly one trailing asterisk removed, if it ends in one
CellStripped(cell, out) ==
    IF Len(cell) > 0 /\ cell[Len(cell)] = "*"
    THEN out \o <<"*">> = cell
    ELSE out = cell

RowStripped(row, out) ==
    /\ Len(out) = Len(row)
    /\ \A j \in 1..Len(row) : CellStripped(row[j], out[j])

WellFormedHeader(row) ==
    /\ Len(row) >= 3
    /\ IsText(row, 1) /\ Contains(Day, row[1])
    /\ IsText(row, 2) /\ Contains(NewStaff, row[2])
    /\ IsText(row, 3) /\ Contains(NewStudent, row[3])

\* digits followed by any number of footnote markers
NumericText(cell) ==
    \E n \in 1..Len(cell) :
        /\ IsDigits(SubSeq(cell, 1, n))
        /\ \A k \in (n + 1)..Len(cell) : cell[k] = "*"

NumericDataRow(row) ==
    /\ Len(row) = 3
    /\ IsText(row, 1) /\ ~Contains(Day, row[1])
    /\ \A k \in 2..3 : IsText(row, k) /\ NumericText(row[k])

DateBefore(a, b) ==
    \/ a.year < b.year
    \/ a.year = b.year /\ a.month < b.month
    \/ a.year = b.year /\ a.month = b.month /\ a.day < b.day

Bijections(n) == { p \in [1..n -> 1..n] : \A a, b \in 1..n : a # b => p[a] # p[b] }

-----------------------------------------------------------------------------
(* C1: on a table of well-formed header rows and numeric data rows, validate
   returns exactly the rows without header marker, in their order, each cell
   with its trailing marker stripped: no header row in the output, no data
   row dropped or duplicated. *)
C1_ValidateKeepsDataRows ==
    (ValidateReturned
        /\ \A k \in 1..Len(table) : WellFormedHeader(table[k]) \/ NumericDataRow(table[k]))
    => LET idx == DataIndices(table, Len(table))
       IN  /\ Len(rows) = Len(idx)
           /\ \A k \in 1..Len(rows) : RowStripped(table[idx[k]], rows[k])
           /\ \A k \in 1..Len(rows) : ~HasHeaderMarker(rows[k])

C1_Witness ==
    /\ ValidateReturned
    /\ Len(table) = 3
    /\ WellFormedHeader(table[1])
    /\ NumericDataRow(table[2]) /\ NumericDataRow(table[3])
    /\ table[2] # table[3]
    /\ \E j \in 2..3 : EndsWith(table[2][j], "*")
    /\ Len(rows) = 2

-----------------------------------------------------------------------------
\* a row with the header marker whose cell 1 is text without "New staff" or
\* whose cell 2 is text without "New student"
MismatchedHeader(row) ==
    /\ HasHeaderMarker(row)
    /\ \/ IsText(row, 2) /\ ~Contains(NewStaff, row[2])
       \/ IsText(row, 3) /\ ~Contains(NewStudent, row[3])

SchemaMismatch == ValidateRaised /\ err.exc = "AssertionError"

(* C2: validate raises SchemaMismatch if and only if some row of the input
   has the header marker in cell 0 and lacks "New staff" in cell 1 or "New
   student" in cell 2; and when it is raised no validated rows are returned. *)
C2_SchemaMismatchIff ==
    (ValidateReturned \/ ValidateRaised)
    => /\ SchemaMismatch <=> \E k \in 1..Len(table) : MismatchedHeader(table[k])
       /\ SchemaMismatch => rows = Unbound

\* a row validate takes without raising: a header row with both labels, or a
\* row with at least one cell, text in every cell and no header marker
Acceptable(row) ==
    \/ WellFormedHeader(row)
    \/ /\ Len(row) >= 1
       /\ \A k \in 1..Len(row) : IsText(row, k)
       /\ ~Contains(Day, row[1])

\* the row fails one of the two asserts: cell 1 is text without "New staff", or
\* cell 1 has it and cell 2 is text without "New student"
FailsAssert(row) ==
    /\ HasHeaderMarker(row)
    /\ IsText(row, 2)
    /\ \/ ~Contains(NewStaff, row[2])
       \/ IsText(row, 3) /\ ~Contains(NewStudent, row[3])

(* C2, amended: validate raises SchemaMismatch if and only if the first row
   it does not accept fails one of the two label asserts; a row that fails
   before in another way (no cell, a cell without text, a missing label cell)
   ends validate with that other error instead.  When SchemaMismatch is
   raised no validated rows are returned. *)
C2_SchemaMismatchAtFirstBadRow ==
    (ValidateReturned \/ ValidateRaised)
    => /\ SchemaMismatch
          <=> \E k \in 1..Len(table) :
                  /\ FailsAssert(table[k])
                  /\ \A j \in 1..(k - 1) : Acceptable(table[j])
       /\ SchemaMismatch => rows = Unbound /\ FailsAssert(table[i])

\* the mismatched header comes after a header and a data row that were accepted
C2_Witness ==
    /\ SchemaMismatch
    /\ i = 3
    /\ WellFormedHeader(table[1])
    /\ Len(validated) = 1
    /\ rows = Unbound

(* C3: the Dataset transform returns is sorted ascending by its date string,
   and when the dates of the input rows are distinct the rows are in the
   chronological order of those dates. *)
C3_SortedChronological ==
    TransformReturned
    => /\ \A k \in 1..Len(data) : \A l \in (k + 1)..Len(data) :
              ~StrLess(data[l][1], data[k][1])
       /\ (\A a, b \in 1..Len(rows) :
               a # b => ParseDate(rows[a][1]) # ParseDate(rows[b][1]))
          => /\ { ParseDate(data[k][1]) : k \in 1..Len(data) }
                    = { ParseDate(rows[k][1]) : k \in 1..Len(rows) }
             /\ \A k \in 1..Len(data) : \A l \in (k + 1)..Len(data) :
                    DateBefore(ParseDate(data[k][1]), ParseDate(data[l][1]))

\* three rows given latest first, with a one-digit day and a change of year
C3_Witness ==
    /\ TransformReturned
    /\ Len(rows) = 3 /\ Len(data) = 3
    /\ rows[1][1] = Jan1 /\ rows[2][1] = Oct12 /\ rows[3][1] = Oct9
    /\ data[1][1] = <<"2","0","2","0","-","1","0","-","0","9">>

(* C7: every row validate returns has the 3 cells of the schema (the date
   cell and the 2 numeric cells). *)
C7_ValidatedRowsHaveThreeCells ==
    ValidateReturned => \A k \in 1..Len(rows) : Len(rows[k]) = 3

(* C8: a row without header marker that has fewer than 3 cells makes
   transform fail, so extract_transform_data never returns a Dataset holding
   a row that comes from such a row. *)
C8_ShortRowsNeverReturned ==
    TransformReturned
    => \A k \in 1..Len(table) : HasHeaderMarker(table[k]) \/ Len(table[k]) >= 3

(* C9: validate removes exactly one trailing asterisk from a cell that ends
   with an asterisk and leaves every other cell as it is: each cell validated
   so far, with one asterisk put back if its source ended in one, is the
   source cell. *)
C9_OneMarkerStripped ==
    (pc = "validate" \/ ValidateRaised)
    => LET idx == DataIndices(table, i - 1)
       IN  /\ Len(validated) = Len(idx)
           /\ \A k \in 1..Len(validated) :
                  /\ Len(validated[k]) = Len(table[idx[k]])
                  /\ \A j \in 1..Len(validated[k]) :
                         LET cell == table[idx[k]][j]
                             out == validated[k][j]
                         IN  IF EndsWith(cell, "*")
                             THEN Len(out) = Len(cell) - 1 /\ out \o <<"*">> = cell
                             ELSE out = cell

\* a cell ending in two asterisks kept one, a cell that is one asterisk is empty
C9_Witness ==
    /\ pc = "validate"
    /\ i = 2
    /\ table[1] = <<Oct9, <<"3","*","*">>, <<"*">> >>
    /\ validated = << <<Oct9, <<"3","*">>, <<>> >> >>

(* C10: a Dataset the pipeline returns holds exactly one row for each
   extracted row without header marker: as many rows as the table has rows
   minus its header rows, equal rows kept as duplicates, each with as many
   cells as, and the date of, the row it comes from. *)
C10_OneTypedRowPerDataRow ==
    TransformReturned
    => LET idx == DataIndices(table, Len(table))
           headers == Cardinality({ k \in 1..Len(table) : HasHeaderMarker(table[k]) })
       IN  /\ Len(data) = Len(table) - headers
           /\ \E p \in Bijections(Len(idx)) :
                  \A k \in 1..Len(idx) :
                      /\ Len(data[p[k]]) = Len(table[idx[k]])
                      /\ ParseDate(data[p[k]][1]) = ParseDate(table[idx[k]][1])

\* a header row and the same day twice, once with a marker
C10_Witness ==
    /\ TransformReturned
    /\ Len(table) = 3
    /\ \E k \in 1..3 : HasHeaderMarker(table[k])
    /\ \E k \in 1..3 : table[k][1] = IsoOct12
    /\ Len(data) = 2
    /\ data[1] = data[2]

-----------------------------------------------------------------------------
(* Properties of a run of main, checked under MainSpec *)

UpstreamStages == {"fetch", "validate", "transform", "fetch_city", "visualise"}

(* C4: when a stage upstream of the export fails (the page fetch, validate,
   transform, the city fetch or the chart), the run is over and no file has
   been written: no CSV, no JSON, no chart image. *)
C4_NoFileAfterUpstreamFailure ==
    (pc = "raised" /\ err.stage \in UpstreamStages) => files = {}

\* the chart is what fails: the city data has no count for a day of the table
C4_Witness ==
    /\ pc = "raised"
    /\ err.stage = "visualise"
    /\ err.exc = "TypeError"
    /\ args.csv_file
    /\ files = {}

(* C5: a successful run writes at most one export format: the CSV and not the
   JSON when --csv is given, whether --json is given or not; only the JSON
   when only --json is given; and no file at all when neither is given. *)
C5_AtMostOneExportNoFileWithoutFlags ==
    pc = "done"
    => /\ args.csv_file => "csv" \in files /\ "json" \notin files
       /\ (~args.csv_file /\ args.json_file) => "json" \in files /\ "csv" \notin files
       /\ (~args.csv_file /\ ~args.json_file) => files = {}

(* C5, amended: a successful run writes at most one export format: the CSV
   and not the JSON when --csv is given, whether --json is given or not; only
   the JSON when only --json is given; neither when neither is given.  The
   chart image is written in every successful run, also without flags. *)
C5_AtMostOneExportPlusChart ==
    pc = "done"
    => /\ args.csv_file => "csv" \in files /\ "json" \notin files
       /\ (~args.csv_file /\ args.json_file) => "json" \in files /\ "csv" \notin files
       /\ (~args.csv_file /\ ~args.json_file) => files \cap {"csv", "json"} = {}
       /\ files \ {"csv", "json"} = {"png"}

\* both flags given: the run ends with the CSV and the chart
C5_Witness ==
    /\ pc = "done"
    /\ args.csv_file /\ args.json_file
    /\ files = {"csv", "png"}

(* C6: the percentage panel is computed only for the dates present in both
   the Dataset and the ExternalSeries: the date, staff, student and city-count
   series have the same length and position k of each refers to the same
   date. *)
C6_PanelSeriesAligned ==
    chart.drawn
    => /\ Len(chart.city_count) = Len(chart.dates)
       /\ Len(chart.staff_values) = Len(chart.dates)
       /\ Len(chart.student_values) = Len(chart.dates)
       /\ \A k \in 1..Len(chart.dates) : chart.city_dates[k] = chart.dates[k]
       /\ \A k \in 1..Len(chart.bars) : chart.bars[k].city_date = chart.bars[k].date

=============================================================================
